---- MODULE Spec2Model ----
(***************************************************************************)
(* gogeo: GeoJSON -> GeoParquet conversion (pkg/gogeo).                    *)
(*                                                                         *)
(* The model follows Generate -> readGeoJSON -> writeGeoParquet, with      *)
(* analyzeProperties, createGeoParquetMetadata, buildDynamicType and       *)
(* buildRecord translated from pkg/gogeo/core.go and inferPropertyType     *)
(* from pkg/gogeo/schema.go.                                               *)
(*                                                                         *)
(* Strings that the code inspects byte by byte (property names) are        *)
(* sequences of byte codes: "a" is <<97>>, "B" is <<66>>.                  *)
(* A property value is a record whose field t is its Go dynamic type.      *)
(***************************************************************************)
EXTENDS Integers, Sequences, FiniteSets, TLC

VARIABLES
    variant,        \* which Generate is running: "core" (core.go) or "stub" (the earlier Generate)
    src,            \* the file at geojsonPath: [status, fc]
    pc,             \* position inside Generate / writeGeoParquet
    fc,             \* the parsed feature collection (sequence of features)
    fi,             \* analyzeProperties: index of the feature being ranged over
    pending,        \* analyzeProperties: keys of that feature's map not yet visited
    propertyTypes,  \* analyzeProperties: map key -> PropertyType
    propertyNames,  \* analyzeProperties: set of observed keys
    propertyInfos,  \* []PropertyInfo returned by analyzeProperties
    geoMeta,        \* *GeoParquet built by createGeoParquetMetadata
    bounds,         \* createGeoParquetMetadata: the accumulated *orb.Bound
    structType,     \* fields of the reflect.Type built by buildDynamicType
    ri,             \* writeGeoParquet: index of the feature being converted
    rows,           \* rows accepted by writer.WriteRows, in order
    outFile,        \* the file at outputPath
    calls,          \* the calls Generate has completed so far, in order
    result,         \* what Generate returned: [fc, err]
    cli             \* the generate command: position, arguments, output, exit status

vars == <<variant, src, pc, fc, fi, pending, propertyTypes, propertyNames,
          propertyInfos, geoMeta, bounds, structType, ri, rows, outFile, calls, result,
          cli>>

-----------------------------------------------------------------------------
(* Bounds of the model *)

\* longest feature collection enumerated
MaxFeatures == 2

-----------------------------------------------------------------------------
(* Program constants *)

GeoParquetVersion == "1.1.0"
DefaultGeometryColumn == "geometry"
DefaultGeometryEncoding == "WKB"

PropertyTypeUnknown == "PropertyTypeUnknown"
PropertyTypeString == "PropertyTypeString"
PropertyTypeInt == "PropertyTypeInt"
PropertyTypeFloat == "PropertyTypeFloat"
PropertyTypeBool == "PropertyTypeBool"
PropertyTypeNull == "PropertyTypeNull"

-----------------------------------------------------------------------------
(* Values *)

\* the nil interface value
NilValue == [t |-> "nil"]

\* Go dynamic types of the values enumerated
IntKinds == {"int", "int8", "int16", "int32", "int64"}
UintKinds == {"uint", "uint8", "uint16", "uint32", "uint64"}
FloatKinds == {"float32", "float64"}

\* reflect.ValueOf(v).Kind(): the kind of a value of a defined type is the
\* kind of its underlying type
Kind(value) == IF value.t = "named" THEN value.kind ELSE value.t

\* the switch on rv.Kind() of the default case
kindSwitch(kind) ==
    CASE kind = "bool" -> PropertyTypeBool
      [] kind \in IntKinds -> PropertyTypeInt
      [] kind \in UintKinds -> PropertyTypeInt
      [] kind \in FloatKinds -> PropertyTypeFloat
      [] kind = "string" -> PropertyTypeString
      [] kind \in {"map", "slice", "array"} -> PropertyTypeString
      [] OTHER -> PropertyTypeString

\* faulty variant: the unsigned widths are missing from both switches
inferPropertyTypeNoUint(value) ==
    IF value.t = "nil" THEN PropertyTypeNull
    ELSE IF Kind(value) \in UintKinds THEN PropertyTypeString
    ELSE kindSwitch(Kind(value))

\* inferPropertyType: the type switch, then the reflect.Kind switch
inferPropertyType(value) ==
    IF value.t = "nil" THEN PropertyTypeNull
    ELSE CASE value.t = "bool" -> PropertyTypeBool
           [] value.t \in IntKinds -> PropertyTypeInt
           [] value.t \in UintKinds -> PropertyTypeInt
           [] value.t \in FloatKinds -> PropertyTypeFloat
           [] value.t = "string" -> PropertyTypeString
           [] OTHER -> kindSwitch(Kind(value))

-----------------------------------------------------------------------------
(* Strings as byte sequences *)

\* Go's string comparison a < b: byte-wise lexicographic
StringLess(a, b) ==
    \/ /\ Len(a) < Len(b)
       /\ \A i \in 1..Len(a) : a[i] = b[i]
    \/ \E i \in 1..Len(a) :
          /\ i <= Len(b)
          /\ a[i] < b[i]
          /\ \A j \in 1..(i - 1) : a[j] = b[j]

\* insert name into an ascending sequence, keeping it ascending
RECURSIVE InsertSorted(_, _)
InsertSorted(name, s) ==
    IF s = <<>> THEN <<name>>
    ELSE IF StringLess(name, Head(s)) THEN <<name>> \o s
    ELSE <<Head(s)>> \o InsertSorted(name, Tail(s))

RECURSIVE SortLoop(_, _)
SortLoop(names, acc) ==
    IF names = <<>> THEN acc
    ELSE SortLoop(Tail(names), InsertSorted(Head(names), acc))

\* faulty variant of sort.Strings: the slice is left in map-iteration order
SortStringsOmitted(names) == names

\* sort.Strings(names)
SortStrings(names) == SortLoop(names, <<>>)

\* every order in which a Go map range can visit the set S
Orders(S) ==
    {o \in [1..Cardinality(S) -> S] : \A i, j \in 1..Cardinality(S) : o[i] = o[j] => i = j}

-----------------------------------------------------------------------------
(* Features *)

\* feature.Properties == nil
NilProperties == [isNil |-> TRUE]

\* a non-nil map[string]interface{}
Properties(m) == [isNil |-> FALSE, m |-> m]

\* feature.Geometry == nil
NilGeometry == [isNil |-> TRUE]

\* the keys a range over feature.Properties visits (none for a nil map)
PropertyKeys(feature) ==
    IF feature.properties.isNil THEN {} ELSE DOMAIN feature.properties.m

\* feature.Properties[name]: the zero value nil when the map is nil or lacks the key
Lookup(feature, name) ==
    IF name \in PropertyKeys(feature) THEN feature.properties.m[name] ELSE NilValue

\* the elements of a sequence
Range(s) == {s[i] : i \in DOMAIN s}

-----------------------------------------------------------------------------
(* analyzeProperties *)

\* faulty variant: a conflicting observation is ignored, the first type is kept
recordTypeKeepFirst(types, key, inferredType) ==
    IF key \in DOMAIN types
    THEN IF types[key] = PropertyTypeNull /\ inferredType # PropertyTypeNull
         THEN (key :> inferredType) @@ types
         ELSE types
    ELSE (key :> inferredType) @@ types

\* faulty variant: the recorded Null is not told apart from a recorded type
recordTypeNullConflicts(types, key, inferredType) ==
    IF key \in DOMAIN types
    THEN IF types[key] # inferredType /\ inferredType # PropertyTypeNull
         THEN (key :> PropertyTypeString) @@ types
         ELSE types
    ELSE (key :> inferredType) @@ types

\* faulty variant: the latest observation replaces the recorded type
recordTypeLastWins(types, key, inferredType) == (key :> inferredType) @@ types

\* faulty variant: an Integer and a Float observation are reconciled as Float
recordTypeWidens(types, key, inferredType) ==
    IF key \in DOMAIN types
    THEN IF types[key] # inferredType /\ inferredType # PropertyTypeNull
         THEN IF types[key] # PropertyTypeNull
              THEN IF {types[key], inferredType} = {PropertyTypeInt, PropertyTypeFloat}
                   THEN (key :> PropertyTypeFloat) @@ types
                   ELSE (key :> PropertyTypeString) @@ types
              ELSE (key :> inferredType) @@ types
         ELSE types
    ELSE (key :> inferredType) @@ types

\* the body of the inner loop: propertyTypes after one (key, inferredType)
recordType(types, key, inferredType) ==
    IF key \in DOMAIN types
    THEN IF types[key] # inferredType /\ inferredType # PropertyTypeNull
         THEN IF types[key] # PropertyTypeNull
              THEN (key :> PropertyTypeString) @@ types
              ELSE (key :> inferredType) @@ types
         ELSE types
    ELSE (key :> inferredType) @@ types

\* faulty variant: a key is recorded only when its value is not null
recordNameNonNull(names, key, value) ==
    IF value.t = "nil" THEN names ELSE names \cup {key}

\* propertyNames[key] = true
recordName(names, key, value) == names \cup {key}

\* faulty variant: the Null type is passed through
defaultTypeOmitted(propType) == propType

\* a type that is still Null after the pass becomes String
defaultType(propType) ==
    IF propType = PropertyTypeNull THEN PropertyTypeString ELSE propType

\* faulty variant: a descriptor is nullable only when a null was recorded
makeInfosNullableIfNull(names, types) ==
    [i \in 1..Len(names) |->
        [Name |-> names[i], Type |-> defaultType(types[names[i]]),
         Nullable |-> types[names[i]] = PropertyTypeNull]]

\* the infos slice built from the sorted names
makeInfos(names, types) ==
    [i \in 1..Len(names) |->
        [Name |-> names[i], Type |-> defaultType(types[names[i]]), Nullable |-> TRUE]]

\* one order of the set S (used where the order is shown not to matter)
RECURSIVE AnyOrder(_)
AnyOrder(S) ==
    IF S = {} THEN <<>>
    ELSE LET x == CHOOSE y \in S : TRUE IN <<x>> \o AnyOrder(S \ {x})

\* the inner loop over one feature's map, visiting its keys in the order keys
RECURSIVE rangeProperties(_, _, _)
rangeProperties(feature, keys, acc) ==
    IF keys = <<>> THEN acc
    ELSE LET key == Head(keys)
             value == feature.properties.m[key]
         IN rangeProperties(feature, Tail(keys),
                [types |-> recordType(acc.types, key, inferPropertyType(value)),
                 names |-> recordName(acc.names, key, value)])

\* the outer loop over fc.Features
RECURSIVE rangeFeatures(_, _)
rangeFeatures(features, acc) ==
    IF features = <<>> THEN acc
    ELSE rangeFeatures(Tail(features),
            rangeProperties(Head(features), AnyOrder(PropertyKeys(Head(features))), acc))

\* analyzeProperties(fc) as a function of the collection
analyzeProperties(features) ==
    LET acc == rangeFeatures(features, [types |-> <<>>, names |-> {}])
    IN makeInfos(SortStrings(AnyOrder(acc.names)), acc.types)

\* the first feature's index and the keys of its map, at the start of the pass
FirstIndex(features) == IF Len(features) = 0 THEN 0 ELSE 1
FirstPending(features) == IF Len(features) = 0 THEN {} ELSE PropertyKeys(features[1])

\* one iteration of the inner loop, for any key the map range may yield next
AnalyzeKey ==
    /\ pc = "analyze"
    /\ pending # {}
    /\ \E key \in pending :
          LET value == fc[fi].properties.m[key] IN
          /\ propertyNames' = recordName(propertyNames, key, value)
          /\ propertyTypes' = recordType(propertyTypes, key, inferPropertyType(value))
          /\ pending' = pending \ {key}
    /\ UNCHANGED <<cli, variant, src, pc, fc, fi, propertyInfos, geoMeta, bounds,
                   structType, ri, rows, outFile, calls, result>>

\* the outer loop moves to the next feature
AnalyzeNextFeature ==
    /\ pc = "analyze"
    /\ pending = {}
    /\ fi < Len(fc)
    /\ fi' = fi + 1
    /\ pending' = PropertyKeys(fc[fi + 1])
    /\ UNCHANGED <<cli, variant, src, pc, fc, propertyTypes, propertyNames, propertyInfos,
                   geoMeta, bounds, structType, ri, rows, outFile, calls, result>>

\* after the loops: names collected in map order, sorted, infos built
AnalyzeFinish ==
    /\ pc = "analyze"
    /\ pending = {}
    /\ fi >= Len(fc)
    /\ \E names \in Orders(propertyNames) :
          propertyInfos' = makeInfos(SortStrings(names), propertyTypes)
    /\ calls' = Append(calls, "analyzeProperties")
    /\ pc' = "metadata"
    /\ UNCHANGED <<cli, variant, src, fc, fi, pending, propertyTypes, propertyNames,
                   geoMeta, bounds, structType, ri, rows, outFile, result>>

-----------------------------------------------------------------------------
(* createGeoParquetMetadata *)

\* orb.Bound.IsEmpty
BoundIsEmpty(b) == b.minX > b.maxX \/ b.minY > b.maxY

Min(x, y) == IF x <= y THEN x ELSE y
Max(x, y) == IF x >= y THEN x ELSE y

\* the bound orb gives to a geometry without coordinates: Min (1,1), Max (-1,-1)
EmptyBound == [minX |-> 1, minY |-> 1, maxX |-> -1, maxY |-> -1]

\* orb.Bound.Contains: the point lies within the bound
BoundContains(b, x, y) ==
    /\ b.minX <= x /\ x <= b.maxX
    /\ b.minY <= y /\ y <= b.maxY

\* orb.Bound.Extend: the bound grown to include the point; the corners of
\* the receiver are used as they are, also when the receiver is empty
BoundExtend(b, x, y) ==
    IF BoundContains(b, x, y) THEN b
    ELSE [minX |-> Min(b.minX, x), minY |-> Min(b.minY, y),
          maxX |-> Max(b.maxX, x), maxY |-> Max(b.maxY, y)]

\* orb.Bound.Union: an empty other leaves the receiver as it is; otherwise
\* the receiver is extended by other's left-top and right-bottom corners.
\* The receiver is not tested for emptiness.
BoundUnion(b, other) ==
    IF BoundIsEmpty(other) THEN b
    ELSE BoundExtend(BoundExtend(b, other.minX, other.maxY), other.maxX, other.minY)

\* the loop over fc.Features: geometry types seen and the accumulated bound
RECURSIVE collectGeometry(_, _)
collectGeometry(features, acc) ==
    IF features = <<>> THEN acc
    ELSE LET g == Head(features).geometry IN
         IF g.isNil THEN collectGeometry(Tail(features), acc)
         ELSE collectGeometry(Tail(features),
                [geomTypes |-> acc.geomTypes \cup {g.type},
                 bounds |-> IF acc.bounds.isNil
                            THEN [isNil |-> FALSE, b |-> g.bound]
                            ELSE [isNil |-> FALSE, b |-> BoundUnion(acc.bounds.b, g.bound)]])

\* faulty variant: the sort of the type list is left out
typesListUnsorted(geomTypes, order) ==
    IF geomTypes = {} THEN [isNil |-> TRUE, items |-> <<>>]
    ELSE [isNil |-> FALSE, items |-> order]

\* typesList: a nil slice until the first append, then sorted
typesList(geomTypes, order) ==
    IF geomTypes = {} THEN [isNil |-> TRUE, items |-> <<>>]
    ELSE [isNil |-> FALSE, items |-> SortStrings(order)]

\* faulty variant: the column is registered under the encoding's name
makeMetadataWrongKey(types) ==
    [built |-> TRUE,
     Version |-> GeoParquetVersion,
     PrimaryColumn |-> DefaultGeometryColumn,
     Columns |-> [c \in {DefaultGeometryEncoding} |->
                    [Encoding |-> DefaultGeometryEncoding,
                     GeometryTypes |-> types,
                     CRS |-> [isNil |-> TRUE]]]]

\* json.Marshal of the GeometryTypes field (tag json:"geometry_types", no
\* omitempty): a nil slice is encoded as null, any other slice as an array
marshalGeometryTypes(types) ==
    IF types.isNil THEN [kind |-> "null", items |-> <<>>]
    ELSE [kind |-> "array", items |-> types.items]

\* the *GeoParquet returned
makeMetadata(types) ==
    [built |-> TRUE,
     Version |-> GeoParquetVersion,
     PrimaryColumn |-> DefaultGeometryColumn,
     Columns |-> [c \in {DefaultGeometryColumn} |->
                    [Encoding |-> DefaultGeometryEncoding,
                     GeometryTypes |-> types,
                     CRS |-> [isNil |-> TRUE]]]]

-----------------------------------------------------------------------------
(* buildDynamicType *)

\* the field name "Geometry"
GeometryFieldName == <<71, 101, 111, 109, 101, 116, 114, 121>>

\* the field name "Field" given to the empty property name
EmptyFieldName == <<70, 105, 101, 108, 100>>

\* r & ^('a' - 'A'): bit 0x20 cleared
ClearCaseBit(r) == IF (r \div 32) % 2 = 1 THEN r - 32 ELSE r

\* the characters kept by exportFieldName at byte index i (from 0)
ValidFieldRune(r, i) ==
    \/ r >= 65 /\ r <= 90
    \/ r >= 97 /\ r <= 122
    \/ r >= 48 /\ r <= 57 /\ i > 0
    \/ r = 95

\* exportFieldName, for names of ASCII characters
exportFieldName(name) ==
    IF Len(name) = 0 THEN EmptyFieldName
    ELSE LET runes == [i \in 1..Len(name) |->
                          IF i = 1 THEN ClearCaseBit(name[1]) ELSE name[i]]
         IN [i \in 1..Len(name) |->
                IF ValidFieldRune(runes[i], i - 1) THEN runes[i] ELSE 95]

\* the Go field type and the parquet tag chosen by the switch on propInfo.Type
fieldFor(propInfo) ==
    LET kind == CASE propInfo.Type = PropertyTypeInt -> [go |-> "*int64", parquet |-> "INT64"]
                  [] propInfo.Type = PropertyTypeFloat -> [go |-> "*float64", parquet |-> "DOUBLE"]
                  [] propInfo.Type = PropertyTypeBool -> [go |-> "*bool", parquet |-> "BOOLEAN"]
                  [] OTHER -> [go |-> "*string", parquet |-> "BYTE_ARRAY"]
    IN [Name |-> exportFieldName(propInfo.Name), Type |-> kind.go,
        column |-> propInfo.Name, parquetType |-> kind.parquet, repetition |-> "OPTIONAL"]

\* faulty variant: the geometry field is not added
structFieldsNoGeometry(infos) ==
    [i \in 1..Len(infos) |-> fieldFor(infos[i])]

\* the fields slice: the geometry field, then one field per propInfo
structFields(infos) ==
    <<[Name |-> GeometryFieldName, Type |-> "[]byte",
       column |-> <<103, 101, 111, 109, 101, 116, 114, 121>>,
       parquetType |-> "BYTE_ARRAY", repetition |-> "REQUIRED"]>>
    \o [i \in 1..Len(infos) |-> fieldFor(infos[i])]

\* reflect.StructOf panics on a field name that starts with a lower-case
\* letter or "_" (unexported, no PkgPath) and on a duplicate field name
StructOfPanics(fields) ==
    \/ \E i \in DOMAIN fields :
          LET c == fields[i].Name[1] IN (c >= 97 /\ c <= 122) \/ c = 95
    \/ \E i, j \in DOMAIN fields : i < j /\ fields[i].Name = fields[j].Name

-----------------------------------------------------------------------------
(* buildRecord *)

\* wkb.Marshal(feature.Geometry): the bytes, or an error of the encoder
wkbMarshal(g) ==
    IF g.encodable
    THEN [err |-> FALSE, bytes |-> <<"wkb", g.type, g.bound>>]
    ELSE [err |-> TRUE, bytes |-> <<>>]

\* the value of field 0
geometryBytes(feature) ==
    IF ~feature.geometry.isNil
    THEN LET r == wkbMarshal(feature.geometry) IN
         IF r.err THEN <<>> ELSE r.bytes
    ELSE <<>>

\* int64(val) of a float held in tenths: truncation toward zero
TruncTenths(t) == IF t >= 0 THEN t \div 10 ELSE -((-t) \div 10)

\* faulty variant: a value that is no number is stored as 0
toInt64Lenient(v) ==
    CASE v.t \in {"int", "int32", "int64"} -> [ok |-> TRUE, v |-> v.v]
      [] v.t \in {"float64", "float32"} -> [ok |-> TRUE, v |-> TruncTenths(v.tenths)]
      [] OTHER -> [ok |-> TRUE, v |-> 0]

toInt64(v) ==
    CASE v.t \in {"int", "int32", "int64"} -> [ok |-> TRUE, v |-> v.v]
      [] v.t \in {"float64", "float32"} -> [ok |-> TRUE, v |-> TruncTenths(v.tenths)]
      [] OTHER -> [ok |-> FALSE, v |-> 0]

toFloat64(v) ==
    CASE v.t \in {"float32", "float64"} -> [ok |-> TRUE, tenths |-> v.tenths]
      [] v.t \in {"int", "int32", "int64"} -> [ok |-> TRUE, tenths |-> v.v * 10]
      [] OTHER -> [ok |-> FALSE, tenths |-> 0]

\* string(json.Marshal(value)) of a value that is not a Go string
jsonMarshal(v) ==
    CASE v.t = "bool" -> IF v.v THEN "true" ELSE "false"
      [] v.t \in IntKinds \cup UintKinds -> ToString(v.v)
      [] v.t \in FloatKinds ->
            LET sign == IF v.tenths < 0 THEN "-" ELSE ""
                abs == IF v.tenths < 0 THEN -v.tenths ELSE v.tenths
            IN IF abs % 10 = 0 THEN sign \o ToString(abs \div 10)
               ELSE sign \o ToString(abs \div 10) \o "." \o ToString(abs % 10)
      [] OTHER -> v.json

\* a nil pointer field, and a pointer to a value
NilPtr == [isNil |-> TRUE]
PtrTo(x) == [isNil |-> FALSE, v |-> x]

\* the value of the field of propInfo
propertyField(feature, propInfo) ==
    LET value == IF ~feature.properties.isNil
                 THEN Lookup(feature, propInfo.Name)
                 ELSE NilValue
    IN IF value = NilValue THEN NilPtr
       ELSE CASE propInfo.Type = PropertyTypeInt ->
                    IF toInt64(value).ok THEN PtrTo(toInt64(value).v) ELSE NilPtr
              [] propInfo.Type = PropertyTypeFloat ->
                    IF toFloat64(value).ok THEN PtrTo(toFloat64(value).tenths) ELSE NilPtr
              [] propInfo.Type = PropertyTypeBool ->
                    IF value.t = "bool" THEN PtrTo(value.v) ELSE NilPtr
              [] OTHER ->
                    LET strValue == IF value.t = "string" THEN value.v
                                    ELSE jsonMarshal(value)
                    IN IF strValue # "" THEN PtrTo(strValue) ELSE NilPtr

\* buildRecord: a value of structType with field 0 and the property fields set
buildRecord(feature, infos, fields) ==
    [j \in 1..Len(fields) |->
        IF j = 1 THEN geometryBytes(feature)
        ELSE IF j - 1 <= Len(infos) THEN propertyField(feature, infos[j - 1])
        ELSE NilPtr]

-----------------------------------------------------------------------------
(* The caller of Generate *)

\* Generate is called as a library function: no command is running
NoCommand == [pc |-> "none"]

-----------------------------------------------------------------------------
(* Inputs of the analysis pass *)

\* property names "a" and "B": byte order puts "B" first
AnalyzeKeys == {<<97>>, <<66>>}

\* one value of each inferred type; a float64 is held in tenths (15 is 1.5)
AnalyzeValues ==
    {NilValue,
     [t |-> "bool", v |-> TRUE],
     [t |-> "int", v |-> 3],
     [t |-> "float64", tenths |-> 15],
     [t |-> "string", v |-> "oops"]}

\* every property map over AnalyzeKeys, and the nil map
AnalyzeMaps ==
    {NilProperties} \cup
    {Properties(m) : m \in UNION {[K -> AnalyzeValues] : K \in SUBSET AnalyzeKeys}}

AnalyzeFeatures == {[geometry |-> NilGeometry, properties |-> p] : p \in AnalyzeMaps}

\* all sequences over S of length at most n
SeqUpTo(S, n) == UNION {[1..k -> S] : k \in 0..n}

\* analyzeProperties is entered, from writeGeoParquet, on some collection
InitAnalyze ==
    /\ variant = "core"
    /\ fc \in SeqUpTo(AnalyzeFeatures, MaxFeatures)
    /\ src = [status |-> "ok", fc |-> fc]
    /\ pc = "analyze"
    /\ fi = FirstIndex(fc)
    /\ pending = FirstPending(fc)
    /\ propertyTypes = <<>>
    /\ propertyNames = {}
    /\ propertyInfos = <<>>
    /\ geoMeta = [built |-> FALSE]
    /\ bounds = [isNil |-> TRUE]
    /\ structType = <<>>
    /\ ri = 0
    /\ rows = <<>>
    /\ outFile = [exists |-> TRUE, open |-> TRUE, rows |-> <<>>]
    /\ calls = <<"readGeoJSON", "os.Create">>
    /\ result = [returned |-> FALSE]
    /\ cli = NoCommand

NextAnalyze == AnalyzeKey \/ AnalyzeNextFeature \/ AnalyzeFinish

SpecAnalyze == InitAnalyze /\ [][NextAnalyze]_vars

-----------------------------------------------------------------------------
(* Generate, readGeoJSON and writeGeoParquet (core.go) *)

\* the nil *geojson.FeatureCollection and the nil error
NilCollection == [isNil |-> TRUE]
NilError == [isNil |-> TRUE]

\* faulty variant: the cause is not stored in Value
AppErrorDropsValue(message, value) ==
    [isNil |-> FALSE, type |-> "AppError", Message |-> message, Value |-> "nil"]

AppError(message, value) ==
    [isNil |-> FALSE, type |-> "AppError", Message |-> message, Value |-> value]

Returned(collection, err) == [returned |-> TRUE, fc |-> collection, err |-> err]

\* faulty variant: the emptiness test is dropped
noFeaturesOmitted(features) == FALSE

\* len(fc.Features) == 0
noFeatures(features) == Len(features) = 0

\* readGeoJSON succeeds
ReadGeoJSONOk ==
    /\ variant = "core"
    /\ pc = "start"
    /\ src.status = "ok"
    /\ fc' = src.fc
    /\ calls' = Append(calls, "readGeoJSON")
    /\ pc' = "check"
    /\ UNCHANGED <<cli, variant, src, fi, pending, propertyTypes, propertyNames, propertyInfos,
                   geoMeta, bounds, structType, ri, rows, outFile, result>>

\* os.ReadFile or geojson.UnmarshalFeatureCollection fails
ReadGeoJSONFail ==
    /\ variant = "core"
    /\ pc = "start"
    /\ src.status # "ok"
    /\ result' = Returned(NilCollection, AppError("failed to read GeoJSON file", src.status))
    /\ pc' = "done"
    /\ UNCHANGED <<cli, variant, src, fc, fi, pending, propertyTypes, propertyNames, propertyInfos,
                   geoMeta, bounds, structType, ri, rows, outFile, calls>>

\* the collection has no features
NoFeatures ==
    /\ pc = "check"
    /\ noFeatures(fc)
    /\ result' = Returned(NilCollection, AppError("no features found in GeoJSON file", "nil"))
    /\ pc' = "done"
    /\ UNCHANGED <<cli, variant, src, fc, fi, pending, propertyTypes, propertyNames, propertyInfos,
                   geoMeta, bounds, structType, ri, rows, outFile, calls>>

\* writeGeoParquet is entered and os.Create succeeds: the file exists, empty
OsCreateOk ==
    /\ pc = "check"
    /\ ~noFeatures(fc)
    /\ outFile' = [exists |-> TRUE, open |-> TRUE, rows |-> <<>>]
    /\ calls' = Append(calls, "os.Create")
    /\ pc' = "analyze"
    /\ fi' = FirstIndex(fc)
    /\ pending' = FirstPending(fc)
    /\ propertyTypes' = <<>>
    /\ propertyNames' = {}
    /\ UNCHANGED <<cli, variant, src, fc, propertyInfos, geoMeta, bounds, structType, ri, rows,
                   result>>

\* os.Create fails: writeGeoParquet returns the error, Generate wraps it
OsCreateFail ==
    /\ pc = "check"
    /\ ~noFeatures(fc)
    /\ result' = Returned(NilCollection, AppError("failed to write GeoParquet file", "os.Create"))
    /\ pc' = "done"
    /\ UNCHANGED <<cli, variant, src, fc, fi, pending, propertyTypes, propertyNames, propertyInfos,
                   geoMeta, bounds, structType, ri, rows, outFile, calls>>

\* createGeoParquetMetadata and json.Marshal of its result (which cannot
\* fail on this struct of strings)
CreateMetadata ==
    /\ pc = "metadata"
    /\ LET acc == collectGeometry(fc, [geomTypes |-> {}, bounds |-> [isNil |-> TRUE]]) IN
       /\ bounds' = acc.bounds
       /\ \E order \in Orders(acc.geomTypes) :
             geoMeta' = makeMetadata(typesList(acc.geomTypes, order))
    /\ calls' = Append(calls, "createGeoParquetMetadata")
    /\ pc' = "type"
    /\ UNCHANGED <<cli, variant, src, fc, fi, pending, propertyTypes, propertyNames, propertyInfos,
                   structType, ri, rows, outFile, result>>

\* buildDynamicType returns the struct type; the schema and the writer are made
BuildDynamicTypeOk ==
    /\ pc = "type"
    /\ ~StructOfPanics(structFields(propertyInfos))
    /\ structType' = structFields(propertyInfos)
    /\ calls' = Append(calls, "buildDynamicType")
    /\ ri' = 1
    /\ pc' = "rows"
    /\ UNCHANGED <<cli, variant, src, fc, fi, pending, propertyTypes, propertyNames, propertyInfos,
                   geoMeta, bounds, rows, outFile, result>>

\* reflect.StructOf panics; the deferred file.Close runs, Generate never returns
BuildDynamicTypePanic ==
    /\ pc = "type"
    /\ StructOfPanics(structFields(propertyInfos))
    /\ outFile' = [outFile EXCEPT !.open = FALSE]
    /\ pc' = "panic"
    /\ UNCHANGED <<cli, variant, src, fc, fi, pending, propertyTypes, propertyNames, propertyInfos,
                   geoMeta, bounds, structType, ri, rows, calls, result>>

\* faulty variant: the new row is put in front of the rows written so far
WriteRowOkNewestFirst ==
    /\ pc = "rows"
    /\ ri <= Len(fc)
    /\ rows' = <<buildRecord(fc[ri], propertyInfos, structType)>> \o rows
    /\ calls' = Append(calls, "WriteRows")
    /\ ri' = ri + 1
    /\ UNCHANGED <<cli, variant, src, pc, fc, fi, pending, propertyTypes, propertyNames,
                   propertyInfos, geoMeta, bounds, structType, outFile, result>>

\* one iteration of the row loop: the record is built and WriteRows accepts it
WriteRowOk ==
    /\ pc = "rows"
    /\ ri <= Len(fc)
    /\ rows' = Append(rows, buildRecord(fc[ri], propertyInfos, structType))
    /\ calls' = Append(calls, "WriteRows")
    /\ ri' = ri + 1
    /\ UNCHANGED <<cli, variant, src, pc, fc, fi, pending, propertyTypes, propertyNames,
                   propertyInfos, geoMeta, bounds, structType, outFile, result>>

\* WriteRows fails: writeGeoParquet returns the error; the deferred
\* writer.Close and file.Close leave the file with the rows accepted so far
WriteRowFail ==
    /\ pc = "rows"
    /\ ri <= Len(fc)
    /\ outFile' = [exists |-> TRUE, open |-> FALSE, rows |-> rows]
    /\ result' = Returned(NilCollection, AppError("failed to write GeoParquet file", "WriteRows"))
    /\ pc' = "done"
    /\ UNCHANGED <<cli, variant, src, fc, fi, pending, propertyTypes, propertyNames, propertyInfos,
                   geoMeta, bounds, structType, ri, rows, calls>>

\* the row loop is over: the deferred closes run and Generate returns fc
ReturnOk ==
    /\ pc = "rows"
    /\ ri > Len(fc)
    /\ outFile' = [exists |-> TRUE, open |-> FALSE, rows |-> rows]
    /\ result' = Returned([isNil |-> FALSE, features |-> fc], NilError)
    /\ pc' = "done"
    /\ UNCHANGED <<cli, variant, src, fc, fi, pending, propertyTypes, propertyNames, propertyInfos,
                   geoMeta, bounds, structType, ri, rows, calls>>

-----------------------------------------------------------------------------
(* The earlier Generate (unnamed/part_000) *)

\* os.Stat fails
StubStatFail ==
    /\ variant = "stub"
    /\ pc = "start"
    /\ src.status = "missing"
    /\ result' = Returned(NilCollection, AppError("failed to get file info", src.status))
    /\ pc' = "done"
    /\ UNCHANGED <<cli, variant, src, fc, fi, pending, propertyTypes, propertyNames, propertyInfos,
                   geoMeta, bounds, structType, ri, rows, outFile, calls>>

\* os.Stat succeeds
StubStatOk ==
    /\ variant = "stub"
    /\ pc = "start"
    /\ src.status # "missing"
    /\ calls' = Append(calls, "os.Stat")
    /\ pc' = "open"
    /\ UNCHANGED <<cli, variant, src, fc, fi, pending, propertyTypes, propertyNames, propertyInfos,
                   geoMeta, bounds, structType, ri, rows, outFile, result>>

\* os.Open fails
StubOpenFail ==
    /\ variant = "stub"
    /\ pc = "open"
    /\ src.status = "unreadable"
    /\ result' = Returned(NilCollection, AppError("failed to open GeoJsonfile", src.status))
    /\ pc' = "done"
    /\ UNCHANGED <<cli, variant, src, fc, fi, pending, propertyTypes, propertyNames, propertyInfos,
                   geoMeta, bounds, structType, ri, rows, outFile, calls>>

\* os.Open succeeds: return nil, nil
StubReturn ==
    /\ variant = "stub"
    /\ pc = "open"
    /\ src.status # "unreadable"
    /\ calls' = Append(calls, "os.Open")
    /\ result' = Returned(NilCollection, NilError)
    /\ pc' = "done"
    /\ UNCHANGED <<cli, variant, src, fc, fi, pending, propertyTypes, propertyNames, propertyInfos,
                   geoMeta, bounds, structType, ri, rows, outFile>>

-----------------------------------------------------------------------------
(* Inputs of Generate *)

\* geometry type tags "Point", "Polygon", "LineString"
TypePoint == <<80, 111, 105, 110, 116>>
TypePolygon == <<80, 111, 108, 121, 103, 111, 110>>
TypeLineString == <<76, 105, 110, 101, 83, 116, 114, 105, 110, 103>>

Geometry(type, bound, encodable) ==
    [isNil |-> FALSE, type |-> type, bound |-> bound, encodable |-> encodable]

\* no geometry, Point(1,2), a polygon over (0,0)-(3,4), a line string
\* that the encoder rejects, and a line string with "coordinates": []
Geometries ==
    {NilGeometry,
     Geometry(TypeLineString, EmptyBound, TRUE),
     Geometry(TypePoint, [minX |-> 1, minY |-> 2, maxX |-> 1, maxY |-> 2], TRUE),
     Geometry(TypePolygon, [minX |-> 0, minY |-> 0, maxX |-> 3, maxY |-> 4], TRUE),
     Geometry(TypeLineString, [minX |-> 2, minY |-> 1, maxX |-> 5, maxY |-> 3], FALSE)}

\* the maps geojson.UnmarshalFeatureCollection decodes from null, {}, {"a": 3},
\* {"a": "oops", "B": null}, {"A": true} and {"a": ""}: encoding/json decodes
\* every JSON number as a float64 (3 is held as 30 tenths)
GenerateMaps ==
    {NilProperties,
     Properties(<<>>),
     Properties(<<97>> :> [t |-> "float64", tenths |-> 30]),
     Properties((<<97>> :> [t |-> "string", v |-> "oops"]) @@ (<<66>> :> NilValue)),
     Properties(<<65>> :> [t |-> "bool", v |-> TRUE]),
     Properties(<<97>> :> [t |-> "string", v |-> ""])}

GenerateFeatures ==
    {[geometry |-> g, properties |-> p] : g \in Geometries, p \in GenerateMaps}

\* the file at geojsonPath: absent, unreadable, not GeoJSON, or a collection
Sources ==
    {[status |-> s, fc |-> <<>>] : s \in {"missing", "unreadable", "malformed"}}
    \cup {[status |-> "ok", fc |-> c] : c \in SeqUpTo(GenerateFeatures, MaxFeatures)}

InitCall(v) ==
    /\ variant = v
    /\ src \in Sources
    /\ pc = "start"
    /\ fc = <<>>
    /\ fi = 0
    /\ pending = {}
    /\ propertyTypes = <<>>
    /\ propertyNames = {}
    /\ propertyInfos = <<>>
    /\ geoMeta = [built |-> FALSE]
    /\ bounds = [isNil |-> TRUE]
    /\ structType = <<>>
    /\ ri = 0
    /\ rows = <<>>
    /\ outFile = [exists |-> FALSE, open |-> FALSE, rows |-> <<>>]
    /\ calls = <<>>
    /\ result = [returned |-> FALSE]
    /\ cli = NoCommand

Init == InitCall("core")

Next ==
    \/ ReadGeoJSONOk \/ ReadGeoJSONFail
    \/ NoFeatures \/ OsCreateOk \/ OsCreateFail
    \/ AnalyzeKey \/ AnalyzeNextFeature \/ AnalyzeFinish
    \/ CreateMetadata
    \/ BuildDynamicTypeOk \/ BuildDynamicTypePanic
    \/ WriteRowOk \/ WriteRowFail \/ ReturnOk

Spec == Init /\ [][Next]_vars

InitStub == InitCall("stub")

NextStub == StubStatFail \/ StubStatOk \/ StubOpenFail \/ StubReturn

SpecStub == InitStub /\ [][NextStub]_vars

-----------------------------------------------------------------------------
(* The generate command (cmd/gogeo) *)

\* the variables the command leaves to the pipeline
pipelineVars == <<variant, src, fc, fi, pending, propertyTypes, propertyNames,
                  propertyInfos, geoMeta, bounds, structType, ri, rows, outFile,
                  calls, result>>

\* index of the last byte c of p, 0 when there is none
LastIndex(p, c) ==
    LET S == {i \in 1..Len(p) : p[i] = c}
    IN IF S = {} THEN 0 ELSE CHOOSE i \in S : \A j \in S : j <= i

\* p without its trailing slashes
RECURSIVE StripSlashes(_)
StripSlashes(p) ==
    IF Len(p) > 0 /\ p[Len(p)] = 47
    THEN StripSlashes(SubSeq(p, 1, Len(p) - 1))
    ELSE p

\* filepath.Base: the last element of the path
Base(path) ==
    IF path = <<>> THEN <<46>>
    ELSE LET p == StripSlashes(path) IN
         IF p = <<>> THEN <<47>>
         ELSE SubSeq(p, LastIndex(p, 47) + 1, Len(p))

\* filepath.Ext: the suffix from the last dot of the last element on
Ext(path) ==
    LET dot == LastIndex(path, 46) IN
    IF dot > LastIndex(path, 47) THEN SubSeq(path, dot, Len(path)) ELSE <<>>

\* strings.TrimSuffix
TrimSuffix(s, suffix) ==
    IF /\ Len(suffix) <= Len(s)
       /\ SubSeq(s, Len(s) - Len(suffix) + 1, Len(s)) = suffix
    THEN SubSeq(s, 1, Len(s) - Len(suffix))
    ELSE s

\* the suffix ".parquet" of the default output path
ParquetSuffix == <<46, 112, 97, 114, 113, 117, 101, 116>>

\* the extension ".geojson"
GeoJsonExt == <<46, 103, 101, 111, 106, 115, 111, 110>>

\* fileExists over the outcome of os.Stat: ENOENT gives false; any other
\* error leaves info nil and info.IsDir() panics
fileExists(stat) ==
    CASE stat = "missing" -> [panics |-> FALSE, value |-> FALSE]
      [] stat = "error"   -> [panics |-> TRUE, value |-> FALSE]
      [] stat = "dir"     -> [panics |-> FALSE, value |-> FALSE]
      [] OTHER            -> [panics |-> FALSE, value |-> TRUE]

\* gogeo.IsGeoJsonFile: the file appears to be GeoJSON based on its extension
IsGeoJsonFile(filePath) == Ext(filePath) = GeoJsonExt

\* isGeoJsonFile of the command
isGeoJsonFile(filename) == IsGeoJsonFile(filename)

\* determineOutputPath; envOutputPath is os.Getenv("GOGEO_OUTPUT_PATH")
determineOutputPath(providedPath, csvPath, envOutputPath) ==
    IF providedPath # <<>> THEN providedPath
    ELSE IF envOutputPath # <<>> THEN envOutputPath
    ELSE TrimSuffix(Base(csvPath), Ext(csvPath)) \o ParquetSuffix

\* the command after one more step: op recorded with its outcome, the
\* messages printed
Step(op, ok, next, messages) ==
    [cli EXCEPT !.pc = next,
                !.trace = Append(@, [op |-> op, ok |-> ok]),
                !.printed = @ \o messages]

\* os.Exit(code), or the exit of a process that panicked
Exit(c, code) == [c EXCEPT !.pc = "exited", !.exit = code]

\* cobra accepts the command line (flags parsed, ExactArgs(1) holds) and
\* enters Run: geojsonPath := args[0]
CmdArgsOk ==
    /\ cli.pc = "args"
    /\ cli.flagsOk
    /\ Len(cli.args) = 1
    /\ cli' = [Step("Args", TRUE, "exists", <<>>) EXCEPT !.geojsonPath = cli.args[1]]
    /\ UNCHANGED <<pc, pipelineVars>>

\* cobra rejects the command line: Run is not entered, RootCmd.Execute
\* returns the error, Execute prints it and calls os.Exit(1)
CmdArgsFail ==
    /\ cli.pc = "args"
    /\ ~cli.flagsOk \/ Len(cli.args) # 1
    /\ cli' = Exit(Step("Args", FALSE, "exited", <<"Error: command line rejected">>), 1)
    /\ UNCHANGED <<pc, pipelineVars>>

\* fileExists(geojsonPath) is true
CmdFileExistsOk ==
    /\ cli.pc = "exists"
    /\ ~fileExists(cli.stat).panics
    /\ fileExists(cli.stat).value
    /\ cli' = Step("fileExists", TRUE, "extension", <<>>)
    /\ UNCHANGED <<pc, pipelineVars>>

\* fileExists(geojsonPath) is false: the error is printed, os.Exit(1)
CmdFileExistsFail ==
    /\ cli.pc = "exists"
    /\ ~fileExists(cli.stat).panics
    /\ ~fileExists(cli.stat).value
    /\ cli' = Exit(Step("fileExists", FALSE, "exited", <<"Error: does not exist">>), 1)
    /\ UNCHANGED <<pc, pipelineVars>>

\* fileExists dereferences the nil FileInfo: the process dies with status 2
CmdFileExistsPanic ==
    /\ cli.pc = "exists"
    /\ fileExists(cli.stat).panics
    /\ cli' = Exit(Step("fileExists", FALSE, "exited", <<>>), 2)
    /\ UNCHANGED <<pc, pipelineVars>>

\* isGeoJsonFile(geojsonPath) is true
CmdIsGeoJsonOk ==
    /\ cli.pc = "extension"
    /\ isGeoJsonFile(cli.geojsonPath)
    /\ cli' = Step("isGeoJsonFile", TRUE, "output", <<>>)
    /\ UNCHANGED <<pc, pipelineVars>>

\* faulty variant: the error is printed but the command goes on
CmdIsGeoJsonFailNoExit ==
    /\ cli.pc = "extension"
    /\ ~isGeoJsonFile(cli.geojsonPath)
    /\ cli' = Step("isGeoJsonFile", FALSE, "output", <<"Error: not a GeoJsonfile">>)
    /\ UNCHANGED <<pc, pipelineVars>>

\* isGeoJsonFile(geojsonPath) is false: the error is printed, os.Exit(1)
CmdIsGeoJsonFail ==
    /\ cli.pc = "extension"
    /\ ~isGeoJsonFile(cli.geojsonPath)
    /\ cli' = Exit(Step("isGeoJsonFile", FALSE, "exited", <<"Error: not a GeoJsonfile">>), 1)
    /\ UNCHANGED <<pc, pipelineVars>>

\* outputPath := determineOutputPath(flagOutputPath, geojsonPath)
CmdDetermineOutputPath ==
    /\ cli.pc = "output"
    /\ cli' = [Step("determineOutputPath", TRUE, "validate", <<>>) EXCEPT
                  !.outputPath = determineOutputPath(cli.flagOutputPath,
                                     cli.geojsonPath, cli.envOutputPath)]
    /\ UNCHANGED <<pc, pipelineVars>>

\* gogeo.ValidateOutputPath(outputPath) returns nil
CmdValidateOk ==
    /\ cli.pc = "validate"
    /\ cli.outputValid
    /\ cli' = Step("ValidateOutputPath", TRUE, "call", <<>>)
    /\ UNCHANGED <<pc, pipelineVars>>

\* gogeo.ValidateOutputPath(outputPath) returns an error: printed, os.Exit(1)
CmdValidateFail ==
    /\ cli.pc = "validate"
    /\ ~cli.outputValid
    /\ cli' = Exit(Step("ValidateOutputPath", FALSE, "exited",
                        <<"Error: Invalid output path">>), 1)
    /\ UNCHANGED <<pc, pipelineVars>>

\* the progress line is printed and gogeo.Generate is entered
CmdCallGenerate ==
    /\ cli.pc = "call"
    /\ pc = "idle"
    /\ cli' = Step("Generate", TRUE, "generate", <<"Generating GeoParquet file">>)
    /\ pc' = "start"
    /\ UNCHANGED pipelineVars

\* Generate returned an error: printed, os.Exit(1)
CmdGenerateError ==
    /\ cli.pc = "generate"
    /\ result.returned
    /\ ~result.err.isNil
    /\ cli' = Exit([cli EXCEPT !.printed = Append(@, "Error generating metadata")], 1)
    /\ UNCHANGED <<pc, pipelineVars>>

\* Generate returned nil: the success line is printed and Run returns
CmdGenerateOk ==
    /\ cli.pc = "generate"
    /\ result.returned
    /\ result.err.isNil
    /\ cli' = Exit([cli EXCEPT !.printed =
                       @ \o <<"GeoParquet file generated successfully">>
                         \o (IF cli.outputPath # <<>> THEN <<" and saved to">> ELSE <<>>)], 0)
    /\ UNCHANGED <<pc, pipelineVars>>

\* Generate panicked: nothing recovers, the process dies with status 2
CmdGeneratePanic ==
    /\ cli.pc = "generate"
    /\ pc = "panic"
    /\ cli' = Exit(cli, 2)
    /\ UNCHANGED <<pc, pipelineVars>>

\* "a.geojson", "d/a.geojson", "a.b.geojson", ".geojson", "a.txt", "a"
CmdPaths ==
    {<<97>> \o GeoJsonExt,
     <<100, 47, 97>> \o GeoJsonExt,
     <<97, 46, 98>> \o GeoJsonExt,
     GeoJsonExt,
     <<97, 46, 116, 120, 116>>,
     <<97>>}

\* the positional arguments: none, one path, or two
CmdArgs ==
    {<<>>} \cup {<<path>> : path \in CmdPaths}
    \cup {<<<<97>> \o GeoJsonExt, <<97, 46, 116, 120, 116>>>>}

\* no path, or "o.pq"
CmdFlagPaths == {<<>>, <<111, 46, 112, 113>>}

\* GOGEO_OUTPUT_PATH unset, or "e.pq"
CmdEnvPaths == {<<>>, <<101, 46, 112, 113>>}

\* what os.Stat finds at geojsonPath
CmdStats == {"file", "dir", "missing", "error"}

\* the files the pipeline may find once the command has let it run
CmdSources ==
    {[status |-> s, fc |-> <<>>] : s \in {"missing", "malformed", "ok"}}
    \cup {[status |-> "ok", fc |-> c] :
            c \in {<<[geometry |-> NilGeometry, properties |-> NilProperties]>>,
                   <<[geometry |-> Geometry(TypePoint,
                                     [minX |-> 1, minY |-> 2, maxX |-> 1, maxY |-> 2], TRUE),
                      properties |-> Properties(<<97>> :> [t |-> "float64", tenths |-> 30])],
                     [geometry |-> NilGeometry,
                      properties |-> Properties(<<65>> :> [t |-> "bool", v |-> TRUE])]>>}}

InitCmd ==
    /\ variant = "core"
    /\ src \in CmdSources
    /\ pc = "idle"
    /\ fc = <<>>
    /\ fi = 0
    /\ pending = {}
    /\ propertyTypes = <<>>
    /\ propertyNames = {}
    /\ propertyInfos = <<>>
    /\ geoMeta = [built |-> FALSE]
    /\ bounds = [isNil |-> TRUE]
    /\ structType = <<>>
    /\ ri = 0
    /\ rows = <<>>
    /\ outFile = [exists |-> FALSE, open |-> FALSE, rows |-> <<>>]
    /\ calls = <<>>
    /\ result = [returned |-> FALSE]
    /\ \E args \in CmdArgs, flagsOk \in BOOLEAN, stat \in CmdStats,
          flag \in CmdFlagPaths, env \in CmdEnvPaths, valid \in BOOLEAN :
          cli = [pc |-> "args", args |-> args, flagsOk |-> flagsOk,
                 geojsonPath |-> <<>>, stat |-> stat,
                 flagOutputPath |-> flag, envOutputPath |-> env,
                 outputValid |-> valid, outputPath |-> <<>>,
                 trace |-> <<>>, printed |-> <<>>, exit |-> 0]

NextCmd ==
    \/ CmdArgsOk \/ CmdArgsFail
    \/ CmdFileExistsOk \/ CmdFileExistsFail \/ CmdFileExistsPanic
    \/ CmdIsGeoJsonOk \/ CmdIsGeoJsonFail
    \/ CmdDetermineOutputPath
    \/ CmdValidateOk \/ CmdValidateFail
    \/ CmdCallGenerate
    \/ CmdGenerateError \/ CmdGenerateOk \/ CmdGeneratePanic
    \/ Next

SpecCmd == InitCmd /\ [][NextCmd]_vars

-----------------------------------------------------------------------------

(* Inputs of inferPropertyType *)

\* nil and one value of every dynamic type the switches tell apart: the
\* basic types, values of defined types, and composite values
InferValues ==
    {NilValue, [t |-> "bool", v |-> FALSE], [t |-> "string", v |-> "3"]}
    \cup {[t |-> k, v |-> 3] : k \in IntKinds \cup UintKinds}
    \cup {[t |-> k, tenths |-> 15] : k \in FloatKinds}
    \cup {[t |-> k, json |-> "[1]"] : k \in {"slice", "array"}}
    \cup {[t |-> k, json |-> "{\"k\":1}"] : k \in {"map", "struct", "ptr"}}
    \cup {[t |-> "named", kind |-> k] :
            k \in {"bool", "int16", "uint8", "float32", "string", "map", "struct"}}

\* analyzeProperties is entered on two features, the first with a value
\* under "a", the second with a value under "B"
InitInfer ==
    /\ variant = "core"
    /\ \E v, w \in InferValues :
          fc = <<[geometry |-> NilGeometry, properties |-> Properties(<<97>> :> v)],
                 [geometry |-> NilGeometry, properties |-> Properties(<<66>> :> w)]>>
    /\ src = [status |-> "ok", fc |-> fc]
    /\ pc = "analyze"
    /\ fi = FirstIndex(fc)
    /\ pending = FirstPending(fc)
    /\ propertyTypes = <<>>
    /\ propertyNames = {}
    /\ propertyInfos = <<>>
    /\ geoMeta = [built |-> FALSE]
    /\ bounds = [isNil |-> TRUE]
    /\ structType = <<>>
    /\ ri = 0
    /\ rows = <<>>
    /\ outFile = [exists |-> TRUE, open |-> TRUE, rows |-> <<>>]
    /\ calls = <<"readGeoJSON", "os.Create">>
    /\ result = [returned |-> FALSE]
    /\ cli = NoCommand

NextInfer == AnalyzeKey \/ AnalyzeNextFeature \/ AnalyzeFinish

SpecInfer == InitInfer /\ [][NextInfer]_vars

-----------------------------------------------------------------------------

(* Inputs of buildRecord *)

\* values of every kind the coercions tell apart; 27 tenths is 2.7
RecordValues ==
    {NilValue,
     [t |-> "bool", v |-> TRUE],
     [t |-> "int", v |-> 3],
     [t |-> "int8", v |-> 4],
     [t |-> "uint64", v |-> 7],
     [t |-> "float64", tenths |-> 27],
     [t |-> "float64", tenths |-> -27],
     [t |-> "string", v |-> "oops"],
     [t |-> "string", v |-> ""],
     [t |-> "map", json |-> "{\"k\":1}"]}

RecordMaps ==
    {NilProperties} \cup
    {Properties(m) : m \in UNION {[K -> RecordValues] : K \in SUBSET AnalyzeKeys}}

RecordFeatures ==
    {[geometry |-> g, properties |-> p] :
        g \in {NilGeometry,
               Geometry(TypePoint, [minX |-> 1, minY |-> 2, maxX |-> 1, maxY |-> 2], TRUE)},
        p \in RecordMaps}

\* every descriptor list over AnalyzeKeys: sorted names, any of the four types
RecordInfos ==
    UNION {{makeInfos(SortStrings(AnyOrder(K)), types) :
               types \in [K -> {PropertyTypeString, PropertyTypeInt,
                                PropertyTypeFloat, PropertyTypeBool}]} :
           K \in SUBSET AnalyzeKeys}

\* the row loop of writeGeoParquet is entered for one feature and some
\* descriptor list
InitRecord ==
    /\ variant = "core"
    /\ \E f \in RecordFeatures : fc = <<f>>
    /\ src = [status |-> "ok", fc |-> fc]
    /\ pc = "rows"
    /\ fi = 1
    /\ pending = {}
    /\ propertyTypes = <<>>
    /\ propertyNames = {}
    /\ propertyInfos \in RecordInfos
    /\ LET acc == collectGeometry(fc, [geomTypes |-> {}, bounds |-> [isNil |-> TRUE]]) IN
       /\ geoMeta = makeMetadata(typesList(acc.geomTypes, AnyOrder(acc.geomTypes)))
       /\ bounds = acc.bounds
    /\ structType = structFields(propertyInfos)
    /\ ri = 1
    /\ rows = <<>>
    /\ outFile = [exists |-> TRUE, open |-> TRUE, rows |-> <<>>]
    /\ calls = <<"readGeoJSON", "os.Create", "analyzeProperties",
                 "createGeoParquetMetadata", "buildDynamicType">>
    /\ result = [returned |-> FALSE]
    /\ cli = NoCommand

NextRecord == WriteRowOk \/ WriteRowFail \/ ReturnOk

SpecRecord == InitRecord /\ [][NextRecord]_vars

-----------------------------------------------------------------------------
(* Properties of analyzeProperties *)

\* analyzeProperties has returned propertyInfos
Analyzed == "analyzeProperties" \in Range(calls)

\* the non-null inferred types observed for key across the collection
ObservedTypes(features, key) ==
    {inferPropertyType(features[i].properties.m[key]) :
        i \in {j \in DOMAIN features : key \in PropertyKeys(features[j])}}
    \ {PropertyTypeNull}

\* the keys observed in any feature with a non-nil map
ObservedKeys(features) == UNION {PropertyKeys(features[i]) : i \in DOMAIN features}

\* the descriptors returned for key
InfosOf(infos, key) == {i \in DOMAIN infos : infos[i].Name = key}

\* C1: a key observed with at least two distinct non-null inferred types
\* gets a descriptor of type String
ConflictPromotion ==
    Analyzed =>
        \A key \in ObservedKeys(fc) :
            Cardinality(ObservedTypes(fc, key)) >= 2 =>
                /\ InfosOf(propertyInfos, key) # {}
                /\ \A i \in InfosOf(propertyInfos, key) :
                      propertyInfos[i].Type = PropertyTypeString

\* C1 witness: the pass has finished on a collection where a key was seen
\* with two distinct non-null types
ConflictPromotionWitness ==
    /\ Analyzed
    /\ \E key \in ObservedKeys(fc) :
          /\ Cardinality(ObservedTypes(fc, key)) >= 2
          /\ \E i \in InfosOf(propertyInfos, key) :
                propertyInfos[i].Type = PropertyTypeString

\* the collection with its features in the order perm
Permuted(features, perm) == [i \in DOMAIN features |-> features[perm[i]]]

\* C2: the descriptor list is the same for every permutation of the features
PermutationInvariant ==
    Analyzed =>
        \A perm \in Orders(DOMAIN fc) :
            analyzeProperties(Permuted(fc, perm)) = propertyInfos

\* C2 witness: a key seen first as null and then with a type (and, reversed,
\* first with the type and then as null) ends with that type
PermutationInvariantWitness ==
    /\ Analyzed
    /\ Len(fc) >= 2
    /\ \E key \in PropertyKeys(fc[1]) \cap PropertyKeys(fc[2]) :
          /\ fc[1].properties.m[key] = NilValue
          /\ inferPropertyType(fc[2].properties.m[key]) = PropertyTypeInt
          /\ \E i \in InfosOf(propertyInfos, key) :
                propertyInfos[i].Type = PropertyTypeInt
          /\ analyzeProperties(<<fc[2], fc[1]>>) = propertyInfos

\* C3: whatever orders the map ranges take, the pass returns the one list
\* that the collection determines
Determinism ==
    Analyzed => propertyInfos = analyzeProperties(fc)

\* C3 witness: the pass has finished on a feature whose map holds two keys,
\* so that the map ranges had more than one order to take
DeterminismWitness ==
    /\ Analyzed
    /\ Len(propertyInfos) >= 2
    /\ \E i \in DOMAIN fc : Cardinality(PropertyKeys(fc[i])) >= 2

\* C4: exactly one descriptor per observed key, in strictly ascending
\* byte-wise order of name
OnePerKeySorted ==
    Analyzed =>
        /\ {propertyInfos[i].Name : i \in DOMAIN propertyInfos} = ObservedKeys(fc)
        /\ Len(propertyInfos) = Cardinality(ObservedKeys(fc))
        /\ \A i \in 1..(Len(propertyInfos) - 1) :
              StringLess(propertyInfos[i].Name, propertyInfos[i + 1].Name)

\* C4 witness: two keys observed, one of them only with null, and the list
\* holds "B" before "a"
OnePerKeySortedWitness ==
    /\ Analyzed
    /\ ObservedKeys(fc) = AnalyzeKeys
    /\ \E key \in AnalyzeKeys : ObservedTypes(fc, key) = {}
    /\ Len(propertyInfos) = 2
    /\ propertyInfos[1].Name = <<66>>
    /\ propertyInfos[2].Name = <<97>>

\* C5: a key whose value is null wherever it occurs gets type String
NullOnlyDefault ==
    Analyzed =>
        \A key \in ObservedKeys(fc) :
            ObservedTypes(fc, key) = {} =>
                /\ InfosOf(propertyInfos, key) # {}
                /\ \A i \in InfosOf(propertyInfos, key) :
                      propertyInfos[i].Type = PropertyTypeString

\* C5 witness: a key carried by two features, null in both, typed String
NullOnlyDefaultWitness ==
    /\ Analyzed
    /\ Len(fc) >= 2
    /\ \E key \in PropertyKeys(fc[1]) \cap PropertyKeys(fc[2]) :
          /\ ObservedTypes(fc, key) = {}
          /\ \E i \in InfosOf(propertyInfos, key) :
                propertyInfos[i].Type = PropertyTypeString

-----------------------------------------------------------------------------
(* Properties of Generate and writeGeoParquet *)

\* C6: every row has exactly 1 + len(propertyInfos) slots, the geometry slot
\* first, whichever keys its feature carries; with no property anywhere the
\* descriptor list is empty and every row has width 1
RowWidth ==
    /\ \A i \in DOMAIN rows :
          /\ Len(rows[i]) = 1 + Len(propertyInfos)
          /\ Len(rows[i]) = Len(structType)
          /\ structType[1].Name = GeometryFieldName
          /\ rows[i][1] = geometryBytes(fc[i])
    /\ (Analyzed /\ ObservedKeys(fc) = {}) =>
          /\ propertyInfos = <<>>
          /\ \A i \in DOMAIN rows : Len(rows[i]) = 1

\* C6 witness: a row of width 3 was written for a feature that carries
\* none of the two keys, after a row for a feature that carries them
RowWidthWitness ==
    /\ Len(rows) >= 2
    /\ Len(propertyInfos) = 2
    /\ PropertyKeys(fc[1]) # {}
    /\ PropertyKeys(fc[2]) = {}
    /\ Len(rows[2]) = 3

\* C7: when the encoder fails for a feature's geometry, that feature's row
\* is never written and Generate does not return a nil error
EncodeFailureFatal ==
    \A i \in DOMAIN fc :
        (~fc[i].geometry.isNil /\ wkbMarshal(fc[i].geometry).err) =>
            /\ Len(rows) < i
            /\ result.returned => ~result.err.isNil

\* C8: when Generate has returned an error, no file exists at outputPath
NoPartialFile ==
    (result.returned /\ ~result.err.isNil) => ~outFile.exists

\* C9: with zero features parsed, nothing but readGeoJSON ever runs, no file
\* is created, no row is written, and Generate returns an AppError
ZeroFeaturesFirst ==
    (src.status = "ok" /\ Len(src.fc) = 0) =>
        /\ \A i \in DOMAIN calls : calls[i] = "readGeoJSON"
        /\ ~outFile.exists
        /\ rows = <<>>
        /\ pc \in {"start", "check", "done"}
        /\ pc = "done" =>
              /\ result.returned
              /\ ~result.err.isNil
              /\ result.err.type = "AppError"
              /\ result.err.Message = "no features found in GeoJSON file"

\* C9 witness: Generate has returned on a collection without features
ZeroFeaturesFirstWitness ==
    /\ src.status = "ok"
    /\ Len(src.fc) = 0
    /\ pc = "done"
    /\ result.returned
    /\ result.err.type = "AppError"
    /\ calls = <<"readGeoJSON">>

\* C10: Generate returns a non-nil collection exactly when it returns a nil
\* error, and that collection is the parsed one
CollectionIffNoError ==
    result.returned =>
        /\ ~result.fc.isNil <=> result.err.isNil
        /\ ~result.fc.isNil => result.fc.features = src.fc

\* the fatal condition that ended Generate, read off the inputs and the run
FatalCondition ==
    IF src.status # "ok" THEN "read"
    ELSE IF Len(src.fc) = 0 THEN "empty"
    ELSE "write"

\* C11 as stated: every error Generate returns is an AppError whose Message
\* names the failed stage and whose Value holds an underlying cause
ErrorCarriesCause ==
    (result.returned /\ ~result.err.isNil) =>
        /\ result.err.type = "AppError"
        /\ result.err.Message =
              CASE FatalCondition = "read" -> "failed to read GeoJSON file"
                [] FatalCondition = "empty" -> "no features found in GeoJSON file"
                [] FatalCondition = "write" -> "failed to write GeoParquet file"
        /\ result.err.Value # "nil"

\* C11 amended: every error Generate returns is an AppError whose Message
\* names the failed stage; Value holds the underlying cause of a read or
\* write failure and is nil for the zero-features error, which has no cause
ErrorIsAppError ==
    (result.returned /\ ~result.err.isNil) =>
        /\ result.err.type = "AppError"
        /\ FatalCondition = "read" =>
              /\ result.err.Message = "failed to read GeoJSON file"
              /\ result.err.Value = src.status
        /\ FatalCondition = "empty" =>
              /\ result.err.Message = "no features found in GeoJSON file"
              /\ result.err.Value = "nil"
        /\ FatalCondition = "write" =>
              /\ result.err.Message = "failed to write GeoParquet file"
              /\ result.err.Value \in {"os.Create", "WriteRows"}
              /\ result.err.Value = "WriteRows" <=> outFile.exists

\* C11 witness: a write failure after one accepted row has reached the caller
ErrorIsAppErrorWitness ==
    /\ result.returned
    /\ ~result.err.isNil
    /\ result.err.type = "AppError"
    /\ result.err.Value = "WriteRows"
    /\ Len(rows) = 1

-----------------------------------------------------------------------------
(* Properties of buildRecord *)

\* the raw value the feature of row i stores under the name of descriptor k
RawValue(i, k) == Lookup(fc[i], propertyInfos[k].Name)

\* the feature with the key of descriptor k taken out of its map
WithoutKey(feature, k) ==
    IF feature.properties.isNil THEN feature
    ELSE [feature EXCEPT !.properties.m =
             [key \in DOMAIN feature.properties.m \ {propertyInfos[k].Name} |->
                 feature.properties.m[key]]]

\* descriptor k of row i is a mismatch of the two kinds the claim names
BoolInString(i, k) ==
    RawValue(i, k).t = "bool" /\ propertyInfos[k].Type = PropertyTypeString
TextInInteger(i, k) ==
    RawValue(i, k).t = "string" /\ propertyInfos[k].Type = PropertyTypeInt

\* the slots of row i other than that of descriptor k hold what they hold
\* when the feature does not carry the mismatched value
OtherSlotsUnaffected(i, k) ==
    \A j \in DOMAIN propertyInfos \ {k} :
        rows[i][j + 1] = propertyField(WithoutKey(fc[i], k), propertyInfos[j])

\* C12 as stated: a boolean in a String column, like a text in an Integer
\* column, leaves a null slot, the other slots unaffected
MismatchIsNull ==
    \A i \in DOMAIN rows : \A k \in DOMAIN propertyInfos :
        (BoolInString(i, k) \/ TextInInteger(i, k)) =>
            /\ rows[i][k + 1] = NilPtr
            /\ OtherSlotsUnaffected(i, k)

\* C12 amended: neither mismatch aborts the conversion (the only error is
\* that of WriteRows); a text in an Integer column leaves a null slot, a
\* boolean in a String column is stored as its JSON text "true" or "false";
\* the other slots are unaffected
MismatchNeverRaises ==
    /\ pc # "panic"
    /\ (result.returned /\ ~result.err.isNil) => result.err.Value = "WriteRows"
    /\ \A i \in DOMAIN rows : \A k \in DOMAIN propertyInfos :
          /\ TextInInteger(i, k) =>
                /\ rows[i][k + 1] = NilPtr
                /\ OtherSlotsUnaffected(i, k)
          /\ BoolInString(i, k) =>
                /\ rows[i][k + 1] = PtrTo(IF RawValue(i, k).v THEN "true" ELSE "false")
                /\ OtherSlotsUnaffected(i, k)

\* C12 witness: a row was written and Generate returned without error for a
\* feature with a text in an Integer column next to a boolean in a String
\* column
MismatchNeverRaisesWitness ==
    /\ Len(rows) = 1
    /\ result.returned
    /\ result.err.isNil
    /\ Len(propertyInfos) = 2
    /\ BoolInString(1, 1)
    /\ TextInInteger(1, 2)
    /\ rows[1][2] = PtrTo("true")
    /\ rows[1][3] = NilPtr

-----------------------------------------------------------------------------
(* Properties of createGeoParquetMetadata *)

\* createGeoParquetMetadata has returned
MetadataBuilt == "createGeoParquetMetadata" \in Range(calls)

\* the features that carry a geometry
WithGeometry(features) == {i \in DOMAIN features : ~features[i].geometry.isNil}

\* the bounds of the geometries of the collection
GeometryBounds(features) ==
    {features[i].geometry.bound : i \in WithGeometry(features)}

SetMin(S) == CHOOSE x \in S : \A y \in S : x <= y
SetMax(S) == CHOOSE x \in S : \A y \in S : x >= y

\* the bounds of the collection that hold at least one point
NonEmptyBounds(features) == {b \in GeometryBounds(features) : ~BoundIsEmpty(b)}

\* the smallest rectangle that contains every rectangle of the set B
Enclosing(B) ==
    [minX |-> SetMin({b.minX : b \in B}), minY |-> SetMin({b.minY : b \in B}),
     maxX |-> SetMax({b.maxX : b \in B}), maxY |-> SetMax({b.maxY : b \in B})]

\* C13: the accumulated bound is the smallest rectangle containing every
\* feature's bound, is the same for every order of the features, and is
\* absent exactly when no feature carries a geometry
BoundIsUnion ==
    MetadataBuilt =>
        /\ bounds.isNil <=> WithGeometry(fc) = {}
        /\ ~bounds.isNil =>
              IF NonEmptyBounds(fc) = {} THEN BoundIsEmpty(bounds.b)
              ELSE bounds.b = Enclosing(NonEmptyBounds(fc))
        /\ \A perm \in Orders(DOMAIN fc) :
              collectGeometry(Permuted(fc, perm),
                  [geomTypes |-> {}, bounds |-> [isNil |-> TRUE]]).bounds = bounds

\* the GeometryTypes slice of the geometry column of the descriptor
EmittedTypes == geoMeta.Columns[DefaultGeometryColumn].GeometryTypes

\* the type tags of the features that carry a geometry
TypesPresent(features) ==
    {features[i].geometry.type : i \in WithGeometry(features)}

\* C14: the geometry type list of the descriptor is strictly ascending (so
\* duplicate-free) and holds exactly the type tags of the features that
\* carry a geometry
GeometryTypesExact ==
    MetadataBuilt =>
        LET items == EmittedTypes.items IN
        /\ \A i, j \in DOMAIN items : i < j => StringLess(items[i], items[j])
        /\ Range(items) = TypesPresent(fc)

\* C14 witness: a Polygon followed by a Point gives ["Point", "Polygon"]
GeometryTypesExactWitness ==
    /\ MetadataBuilt
    /\ Len(fc) = 2
    /\ ~fc[1].geometry.isNil /\ fc[1].geometry.type = TypePolygon
    /\ ~fc[2].geometry.isNil /\ fc[2].geometry.type = TypePoint
    /\ EmittedTypes.items = <<TypePoint, TypePolygon>>

\* C15: the descriptor has version "1.1.0", primary_column "geometry" and
\* one column, keyed by primary_column, with encoding "WKB" and no CRS
MetadataFixedFields ==
    MetadataBuilt =>
        /\ geoMeta.built
        /\ geoMeta.Version = "1.1.0"
        /\ geoMeta.PrimaryColumn = "geometry"
        /\ DOMAIN geoMeta.Columns = {geoMeta.PrimaryColumn}
        /\ \A c \in DOMAIN geoMeta.Columns :
              /\ geoMeta.Columns[c].Encoding = "WKB"
              /\ geoMeta.Columns[c].CRS.isNil

\* C15 witness: the descriptor of a collection with and without geometries
MetadataFixedFieldsWitness ==
    /\ MetadataBuilt
    /\ geoMeta.built
    /\ Len(fc) = 2
    /\ WithGeometry(fc) = {2}
    /\ geoMeta.Columns["geometry"].Encoding = "WKB"

\* C16: when no feature carries a geometry the descriptor is produced, the
\* bound is absent and geometry_types is encoded as a list
NoGeometryTypesIsList ==
    (MetadataBuilt /\ WithGeometry(fc) = {}) =>
        /\ geoMeta.built
        /\ bounds.isNil
        /\ marshalGeometryTypes(EmittedTypes).kind = "array"

-----------------------------------------------------------------------------
(* Properties of the geometry slot *)

\* C17: the geometry slot of a feature without geometry differs from the
\* geometry slot of every feature that carries a geometry
NoGeometryDistinct ==
    \A i, j \in DOMAIN rows :
        (fc[i].geometry.isNil /\ ~fc[j].geometry.isNil) => rows[i][1] # rows[j][1]

-----------------------------------------------------------------------------
(* Properties of the generate command *)

\* the command has completed op with the outcome ok as its k-th step
Did(k, op, ok) == cli.trace[k].op = op /\ cli.trace[k].ok = ok

\* one of the checks of the command has failed
CheckFailed == \E k \in DOMAIN cli.trace : ~cli.trace[k].ok

\* gogeo.Generate has been entered
GenerateInvoked == \E k \in DOMAIN cli.trace : cli.trace[k].op = "Generate"

SuccessPrinted == "GeoParquet file generated successfully" \in Range(cli.printed)

\* C18: Generate is entered only after the existence check, the extension
\* check and the output-path validation have passed, in that order; after a
\* failed check or an error of Generate the success line is never printed
\* and the exit status is not zero
GenerateAfterChecks ==
    /\ pc # "idle" => GenerateInvoked
    /\ \A k \in DOMAIN cli.trace :
          cli.trace[k].op = "Generate" =>
             /\ \E e, x, v \in 1..(k - 1) :
                   /\ e < x /\ x < v
                   /\ Did(e, "fileExists", TRUE)
                   /\ Did(x, "isGeoJsonFile", TRUE)
                   /\ Did(v, "ValidateOutputPath", TRUE)
             /\ \A j \in 1..(k - 1) : cli.trace[j].ok
    /\ CheckFailed =>
          /\ ~GenerateInvoked
          /\ cli.pc = "exited" /\ cli.exit # 0
          /\ ~SuccessPrinted
    /\ (result.returned /\ ~result.err.isNil) =>
          /\ ~SuccessPrinted
          /\ cli.pc = "exited" => cli.exit # 0

\* C18 witness: the checks passed, Generate was entered and returned an
\* error, and the process has exited with status 1
GenerateAfterChecksWitness ==
    /\ GenerateInvoked
    /\ result.returned
    /\ ~result.err.isNil
    /\ cli.pc = "exited"
    /\ cli.exit = 1
    /\ "Error generating metadata" \in Range(cli.printed)

\* the suffix "_parsed.geoparquet"
ParsedGeoparquetSuffix ==
    <<95, 112, 97, 114, 115, 101, 100, 46, 103, 101, 111, 112, 97, 114, 113, 117,
      101, 116>>

\* C19: without --output and without GOGEO_OUTPUT_PATH the output path is
\* the input's base name without its extension followed by
\* "_parsed.geoparquet"
DefaultOutputPath ==
    (/\ \E k \in DOMAIN cli.trace : cli.trace[k].op = "determineOutputPath"
     /\ cli.flagOutputPath = <<>>
     /\ cli.envOutputPath = <<>>) =>
        cli.outputPath = TrimSuffix(Base(cli.geojsonPath), Ext(cli.geojsonPath))
                            \o ParsedGeoparquetSuffix

-----------------------------------------------------------------------------
(* Properties of inferPropertyType *)

\* the value the collection holds under key (each key occurs in one feature)
ValueUnder(key) ==
    LET i == CHOOSE j \in DOMAIN fc : key \in PropertyKeys(fc[j])
    IN fc[i].properties.m[key]

\* the type the priority rules give to a value
ExpectedType(value) ==
    LET k == Kind(value) IN
    IF k = "nil" THEN PropertyTypeNull
    ELSE IF k = "bool" THEN PropertyTypeBool
    ELSE IF k \in {"int", "int8", "int16", "int32", "int64",
                   "uint", "uint8", "uint16", "uint32", "uint64"} THEN PropertyTypeInt
    ELSE IF k \in {"float32", "float64"} THEN PropertyTypeFloat
    ELSE PropertyTypeString

\* C20: the type inferred for a value follows the priority rules (nil Null,
\* boolean Boolean, every integer width Integer, floats Float, everything
\* else String) and is never Unknown
InferenceRules ==
    \A key \in DOMAIN propertyTypes :
        /\ propertyTypes[key] = ExpectedType(ValueUnder(key))
        /\ propertyTypes[key] # PropertyTypeUnknown
        /\ propertyTypes[key] \in {PropertyTypeNull, PropertyTypeBool, PropertyTypeInt,
                                   PropertyTypeFloat, PropertyTypeString}

\* C20 witness: a uint64 was inferred as Integer and a map as String
InferenceRulesWitness ==
    /\ DOMAIN propertyTypes = {<<97>>, <<66>>}
    /\ ValueUnder(<<97>>).t = "uint64"
    /\ propertyTypes[<<97>>] = PropertyTypeInt
    /\ ValueUnder(<<66>>).t = "map"
    /\ propertyTypes[<<66>>] = PropertyTypeString

-----------------------------------------------------------------------------
(* Properties of the analysis pass, step by step *)

\* rank of a recorded type in the order Null < {Integer, Float, Boolean} < String
TypeRank(t) ==
    IF t = PropertyTypeNull THEN 0
    ELSE IF t = PropertyTypeString THEN 2
    ELSE 1

\* one step keeps every recorded key and only moves its type upward
TypeMovesUp ==
    \A key \in DOMAIN propertyTypes :
        /\ key \in DOMAIN propertyTypes'
        /\ TypeRank(propertyTypes'[key]) >= TypeRank(propertyTypes[key])
        /\ propertyTypes[key] = PropertyTypeString
              => propertyTypes'[key] = PropertyTypeString
        /\ propertyTypes[key] # PropertyTypeNull
              => propertyTypes'[key] # PropertyTypeNull
        /\ propertyTypes[key] \notin {PropertyTypeNull, PropertyTypeString}
              => propertyTypes'[key] \in {propertyTypes[key], PropertyTypeString}

\* C21: during the analysis pass the recorded type of a key only moves
\* upward in Null < {Integer, Float, Boolean} < String: String stays String,
\* a non-null type never becomes Null or another non-String type
TypeMonotone == [][TypeMovesUp]_vars

\* C21 witness: "a" was recorded as String from the first feature, the second
\* feature's integer under "a" has been processed, and the type is still String
TypeMonotoneWitness ==
    /\ pc = "analyze"
    /\ Len(fc) = 2
    /\ fi = 2
    /\ pending = {}
    /\ <<97>> \in PropertyKeys(fc[1])
    /\ <<97>> \in PropertyKeys(fc[2])
    /\ inferPropertyType(fc[1].properties.m[<<97>>]) = PropertyTypeString
    /\ inferPropertyType(fc[2].properties.m[<<97>>]) = PropertyTypeInt
    /\ propertyTypes[<<97>>] = PropertyTypeString

\* C22: every descriptor returned has a type among String, Integer, Float
\* and Boolean and is nullable; so every property column of the schema is
\* OPTIONAL and the geometry column is the only REQUIRED one
DescriptorsNullable ==
    Analyzed =>
        /\ \A i \in DOMAIN propertyInfos :
              /\ propertyInfos[i].Type \in {PropertyTypeString, PropertyTypeInt,
                                            PropertyTypeFloat, PropertyTypeBool}
              /\ propertyInfos[i].Nullable = TRUE
        /\ LET fields == structFields(propertyInfos) IN
           /\ Len(fields) = Len(propertyInfos) + 1
           /\ \A j \in DOMAIN fields :
                 fields[j].repetition = "REQUIRED" <=> j = 1
           /\ \A j \in DOMAIN fields :
                 j > 1 => /\ fields[j].repetition = "OPTIONAL"
                          /\ propertyInfos[j - 1].Nullable

\* C22 witness: "B" held only nulls and "a" an integer; both descriptors
\* are nullable and typed String and Integer
DescriptorsNullableWitness ==
    /\ Analyzed
    /\ Len(propertyInfos) = 2
    /\ ObservedTypes(fc, <<66>>) = {}
    /\ propertyInfos[1] = [Name |-> <<66>>, Type |-> PropertyTypeString, Nullable |-> TRUE]
    /\ propertyInfos[2] = [Name |-> <<97>>, Type |-> PropertyTypeInt, Nullable |-> TRUE]

-----------------------------------------------------------------------------
(* Properties of the slot coercions *)

\* the slot of descriptor k in row i
Slot(i, k) == rows[i][k + 1]

\* C23: in an Integer column a value of any integer width, signed or
\* unsigned, is stored unchanged, a float is stored truncated toward zero,
\* and any other value gives a null slot
IntegerSlotCoercion ==
    \A i \in DOMAIN rows : \A k \in DOMAIN propertyInfos :
        propertyInfos[k].Type = PropertyTypeInt =>
            LET value == RawValue(i, k) IN
            IF inferPropertyType(value) = PropertyTypeInt
            THEN Slot(i, k) = PtrTo(value.v)
            ELSE IF value.t \in FloatKinds
            THEN Slot(i, k) = PtrTo(TruncTenths(value.tenths))
            ELSE Slot(i, k) = NilPtr

\* C24: in a String column every non-null value gives a non-null slot: a
\* text is stored verbatim, the empty text included, and any other value
\* as its serialized text
StringSlotKeepsValue ==
    \A i \in DOMAIN rows : \A k \in DOMAIN propertyInfos :
        (propertyInfos[k].Type = PropertyTypeString /\ RawValue(i, k) # NilValue) =>
            LET value == RawValue(i, k) IN
            /\ ~Slot(i, k).isNil
            /\ Slot(i, k) = PtrTo(IF value.t = "string" THEN value.v
                                  ELSE jsonMarshal(value))

-----------------------------------------------------------------------------
(* Properties of buildDynamicType *)

\* an upper-case ASCII letter
IsUpper(c) == c >= 65 /\ c <= 90

\* C25: for the descriptors analyzeProperties returned, the field names all
\* begin with an upper-case letter, are pairwise distinct and differ from
\* "Geometry", and buildDynamicType does not fail
SchemaConstructionTotal ==
    /\ pc # "panic"
    /\ Analyzed =>
          LET names == [k \in DOMAIN propertyInfos |->
                           exportFieldName(propertyInfos[k].Name)] IN
          /\ \A k \in DOMAIN names : IsUpper(names[k][1])
          /\ \A k, l \in DOMAIN names : k # l => names[k] # names[l]
          /\ \A k \in DOMAIN names : names[k] # GeometryFieldName
          /\ ~StructOfPanics(structFields(propertyInfos))

-----------------------------------------------------------------------------
(* Properties of the analysis and the rows together *)

\* the non-null values the collection holds under key
NonNullValues(features, key) ==
    {Lookup(features[i], key) : i \in DOMAIN features} \ {NilValue}

\* C26: a descriptor of a non-String type T means every non-null value of
\* its key has inferred type T; so an Integer slot never receives a float
\* and a Float slot never receives an integer, and the slot built from the
\* same collection holds the value itself
SingleTypeColumns ==
    Analyzed =>
        \A k \in DOMAIN propertyInfos :
            propertyInfos[k].Type # PropertyTypeString =>
                LET T == propertyInfos[k].Type
                    key == propertyInfos[k].Name IN
                /\ \A value \in NonNullValues(fc, key) : inferPropertyType(value) = T
                /\ T = PropertyTypeInt =>
                      \A i \in DOMAIN fc :
                          LET value == Lookup(fc[i], key) IN
                          value # NilValue =>
                             /\ value.t \notin FloatKinds
                             /\ propertyField(fc[i], propertyInfos[k]) = PtrTo(value.v)
                /\ T = PropertyTypeFloat =>
                      \A i \in DOMAIN fc :
                          LET value == Lookup(fc[i], key) IN
                          value # NilValue =>
                             /\ value.t \in FloatKinds
                             /\ propertyField(fc[i], propertyInfos[k]) = PtrTo(value.tenths)

\* C26 witness: "a" is 1.5 in two features and null-free, its descriptor is
\* Float, and "B" is an integer with an Integer descriptor
SingleTypeColumnsWitness ==
    /\ Analyzed
    /\ Len(fc) = 2
    /\ Len(propertyInfos) = 2
    /\ propertyInfos[1].Type = PropertyTypeInt
    /\ propertyInfos[2].Type = PropertyTypeFloat
    /\ NonNullValues(fc, <<66>>) = {[t |-> "int", v |-> 3]}
    /\ NonNullValues(fc, <<97>>) = {[t |-> "float64", tenths |-> 15]}
    /\ propertyField(fc[1], propertyInfos[2]) = PtrTo(15)

\* C27: with the descriptors derived from the same collection a property
\* slot is null only when the feature has no map, lacks the key or holds
\* null under it
NoSilentValueLoss ==
    \A i \in DOMAIN rows : \A k \in DOMAIN propertyInfos :
        Slot(i, k).isNil => RawValue(i, k) = NilValue

-----------------------------------------------------------------------------
(* Properties of writeGeoParquet *)

\* the positions of name in the calls completed so far
CallsOf(name) == {n \in DOMAIN calls : calls[n] = name}

\* C28: rows are written one per feature in input order, each built against
\* the one schema built before the first row; the metadata descriptor is
\* built before any row, from the collection alone; a successful conversion
\* has written a row for every feature
OneRowPerFeature ==
    /\ \A i \in DOMAIN rows :
          /\ i <= Len(fc)
          /\ rows[i] = buildRecord(fc[i], propertyInfos, structType)
          /\ Len(rows[i]) = Len(structType)
    /\ Len(rows) = Cardinality(CallsOf("WriteRows"))
    /\ Cardinality(CallsOf("buildDynamicType")) <= 1
    /\ Cardinality(CallsOf("createGeoParquetMetadata")) <= 1
    /\ \A w \in CallsOf("WriteRows") :
          /\ \E m \in CallsOf("createGeoParquetMetadata") : m < w
          /\ \E b \in CallsOf("buildDynamicType") : b < w
    /\ CallsOf("buildDynamicType") # {} => structType = structFields(propertyInfos)
    /\ MetadataBuilt =>
          geoMeta = makeMetadata(typesList(TypesPresent(fc), AnyOrder(TypesPresent(fc))))
    /\ (result.returned /\ result.err.isNil) =>
          /\ Len(rows) = Len(fc)
          /\ outFile.rows = rows

\* C28 witness: a successful conversion of two features whose rows differ
OneRowPerFeatureWitness ==
    /\ result.returned
    /\ result.err.isNil
    /\ Len(fc) = 2
    /\ Len(rows) = 2
    /\ rows[1] # rows[2]
    /\ rows[1] = buildRecord(fc[1], propertyInfos, structType)
    /\ Len(structType) = 3

====
